---------------------------- MODULE Spec2Model ----------------------------
(***************************************************************************)
(* Model of the kiddy-ai-backend guardrail pipeline:                       *)
(*   app/core/guardrails.py   sanitize, within_daily_budget                *)
(*   app/services/memory.py   insert, fetch_last (conversation log)        *)
(*   app/api/v1/chat.py       setup, chat                                  *)
(*   app/services/gemini_service.py  get_reply                             *)
(* Texts are sequences of one-character strings.                           *)
(***************************************************************************)
EXTENDS Integers, Sequences, FiniteSets, TLC

VARIABLES
    sanPieces,  \* the pieces the text given to sanitize is made of
    sanIn,      \* the text given to sanitize
    sanOnce,    \* sanitize(sanIn)
    sanTwice,   \* sanitize(sanitize(sanIn))
    sanPc,      \* "off", "in", "once", "twice"
    now,        \* time.time(), in whole seconds since the process started
    messages,   \* the rows of table messages (memory.py)
    nextId,     \* the next AUTOINCREMENT id of table messages
    readRows,   \* what the last fetch_last returned: <<created_at, text>> rows
    readAt,     \* the time of the last fetch_last
    bucket,     \* _bucket: session id -> words used (guardrails.py)
    reset_ts,   \* _reset_ts: the start of the current 24 h window
    charged,    \* the last within_daily_budget call: [sid, text, ok], and
                \* the words the calls have admitted so far, per session
    sessions,   \* _sessions: session id -> profile (chat.py)
    last,       \* the last chat request: its input, locals, calls and response
    loop,       \* the task the event loop is running, 0 when it is idle
    task,       \* per request task: its position and its locals
    serial,     \* the bucket and window start of the same charges made serially
    emo,        \* a sentiment answer and what the two classifiers make of it
    stt,        \* an audio payload and what transcribe_audio makes of it
    exported,   \* the last export_logs request and its response
    failures    \* the chat requests answered with the 500 so far

sanVars == <<sanPieces, sanIn, sanOnce, sanTwice, sanPc>>

logVars == <<messages, nextId, readRows, readAt>>

budgetVars == <<bucket, reset_ts, charged>>

apiVars == <<sessions, last>>

taskVars == <<loop, task, serial>>

unitVars == <<emo, stt, exported, failures>>

vars == <<sanPieces, sanIn, sanOnce, sanTwice, sanPc, now, messages, nextId,
          readRows, readAt, bucket, reset_ts, charged, sessions, last, loop,
          task, serial, emo, stt, exported, failures>>

(***************************************************************************)
(* Character classes of Python's re module, on the ASCII characters the    *)
(* model's texts are made of.                                              *)
(***************************************************************************)
Digits == {"0", "1", "2", "3", "4", "5", "6", "7", "8", "9"}

Letters ==
    {"a", "b", "c", "d", "e", "f", "g", "h", "i", "j", "k", "l", "m",
     "n", "o", "p", "q", "r", "s", "t", "u", "v", "w", "x", "y", "z",
     "A", "B", "C", "D", "E", "F", "G", "H", "I", "J", "K", "L", "M",
     "N", "O", "P", "Q", "R", "S", "T", "U", "V", "W", "X", "Y", "Z"}

\* \w
WordChars == Letters \cup Digits \cup {"_"}

\* \s
Whitespace == {" ", "\t", "\n", "\r"}

\* [A-Za-z0-9._%+-]
EmailLocalChars == Letters \cup Digits \cup {".", "_", "%", "+", "-"}

\* [A-Za-z0-9.-]
EmailDomainChars == Letters \cup Digits \cup {".", "-"}

Min(a, b) == IF a <= b THEN a ELSE b

\* the character s[i] is c
CharAt(s, i, c) == i >= 1 /\ i <= Len(s) /\ s[i] = c

\* \d{n} matches s at i
DigitsAt(s, i, n) ==
    /\ i >= 1
    /\ i + n - 1 <= Len(s)
    /\ \A k \in i..(i + n - 1) : s[k] \in Digits

\* \b holds between s[i-1] and s[i]
WordBoundary(s, i) ==
    LET before == i > 1 /\ i - 1 <= Len(s) /\ s[i - 1] \in WordChars
        after  == i >= 1 /\ i <= Len(s) /\ s[i] \in WordChars
    IN  before # after

\* the length of the longest run of characters of class cls that starts at s[i]
RECURSIVE RunLen(_, _, _)
RunLen(s, i, cls) ==
    IF i >= 1 /\ i <= Len(s) /\ s[i] \in cls
    THEN 1 + RunLen(s, i + 1, cls)
    ELSE 0

(***************************************************************************)
(* The four PII patterns.  Each operator gives the length of the match of  *)
(* its pattern that starts at s[i], 0 when there is none (no pattern       *)
(* matches the empty string).                                              *)
(***************************************************************************)
\* _SSN_RE = \b\d{3}-\d{2}-\d{4}\b
SsnMatch(s, i) ==
    IF /\ WordBoundary(s, i)
       /\ DigitsAt(s, i, 3)
       /\ CharAt(s, i + 3, "-")
       /\ DigitsAt(s, i + 4, 2)
       /\ CharAt(s, i + 6, "-")
       /\ DigitsAt(s, i + 7, 4)
       /\ WordBoundary(s, i + 11)
    THEN 11
    ELSE 0

\* \d{3}-\d{4}, the tail of the second alternative of _PHONE_RE
PhoneTailAt(s, j) ==
    DigitsAt(s, j, 3) /\ CharAt(s, j + 3, "-") /\ DigitsAt(s, j + 4, 4)

\* _PHONE_RE = \b\d{10}\b|\(\d{3}\)\s?\d{3}-\d{4}
PhoneMatch(s, i) ==
    IF WordBoundary(s, i) /\ DigitsAt(s, i, 10) /\ WordBoundary(s, i + 10)
    THEN 10
    ELSE IF CharAt(s, i, "(") /\ DigitsAt(s, i + 1, 3) /\ CharAt(s, i + 4, ")")
         THEN IF /\ i + 5 <= Len(s)
                 /\ s[i + 5] \in Whitespace
                 /\ PhoneTailAt(s, i + 6)
              THEN 14
              ELSE IF PhoneTailAt(s, i + 5) THEN 13 ELSE 0
         ELSE 0

\* _ZIP_RE = \b\d{5}(?:-\d{4})?\b
ZipMatch(s, i) ==
    IF WordBoundary(s, i) /\ DigitsAt(s, i, 5)
    THEN IF /\ CharAt(s, i + 5, "-")
            /\ DigitsAt(s, i + 6, 4)
            /\ WordBoundary(s, i + 10)
         THEN 10
         ELSE IF WordBoundary(s, i + 5) THEN 5 ELSE 0
    ELSE 0

\* _EMAIL_RE = [A-Za-z0-9._%+-]+@[A-Za-z0-9.-]+\.[A-Za-z]{2,4}
\* The local part is the whole run before "@"; the greedy domain backs off to
\* the last "." of its run that two letters follow; the TLD takes up to four.
EmailMatch(s, i) ==
    LET local == RunLen(s, i, EmailLocalChars)
        j     == i + local + 1
        dom   == RunLen(s, j, EmailDomainChars)
        dots  == {k \in (j + 1)..(j + dom - 1) :
                     s[k] = "." /\ RunLen(s, k + 1, Letters) >= 2}
    IN  IF local >= 1 /\ CharAt(s, i + local, "@") /\ dots # {}
        THEN LET k == CHOOSE d \in dots : \A e \in dots : e <= d
             IN  (k + Min(4, RunLen(s, k + 1, Letters))) - i + 1
        ELSE 0

\* _PII_PATTERNS, in the order sanitize applies them
PII_PATTERNS == <<"ssn", "phone", "zip", "email">>

MatchLen(pat, s, i) ==
    CASE pat = "ssn"   -> SsnMatch(s, i)
      [] pat = "phone" -> PhoneMatch(s, i)
      [] pat = "zip"   -> ZipMatch(s, i)
      [] pat = "email" -> EmailMatch(s, i)

\* _TOKEN_PLACEHOLDER = "[redacted]"
TOKEN_PLACEHOLDER == <<"[", "r", "e", "d", "a", "c", "t", "e", "d", "]">>

\* pat.sub(_TOKEN_PLACEHOLDER, s) from position i on: leftmost matches, not
\* overlapping, each replaced by the token
RECURSIVE SubFrom(_, _, _)
SubFrom(pat, s, i) ==
    IF i > Len(s)
    THEN <<>>
    ELSE LET n == MatchLen(pat, s, i)
         IN  IF n > 0
             THEN TOKEN_PLACEHOLDER \o SubFrom(pat, s, i + n)
             ELSE <<s[i]>> \o SubFrom(pat, s, i + 1)

RECURSIVE SanitizeFrom(_, _)
SanitizeFrom(text, p) ==
    IF p > Len(PII_PATTERNS)
    THEN text
    ELSE SanitizeFrom(SubFrom(PII_PATTERNS[p], text, 1), p + 1)

\* sanitize(text)
Sanitize(text) == SanitizeFrom(text, 1)

(***************************************************************************)
(* The texts sanitize is run on: up to MaxPieces pieces, each an           *)
(* identifier of the shapes the tests and the spec name, or plain text.    *)
(***************************************************************************)
MaxPieces == 4

PieceText ==
    [ssn        |-> <<"1", "2", "3", "-", "4", "5", "-", "6", "7", "8", "9">>,
     phone10    |-> <<"1", "2", "3", "4", "5", "6", "7", "8", "9", "0">>,
     phoneParen |-> <<"(", "5", "5", "5", ")", " ", "1", "2", "3", "-",
                      "4", "5", "6", "7">>,
     phoneDash  |-> <<"5", "5", "5", "-", "1", "2", "3", "-", "4", "5", "6", "7">>,
     zip        |-> <<"1", "2", "3", "4", "5">>,
     email      |-> <<"a", "@", "b", ".", "c", "o", "m">>,
     call       |-> <<"C", "a", "l", "l", " ">>,
     andEmail   |-> <<" ", "a", "n", "d", " ", "e", "m", "a", "i", "l", " ">>,
     space      |-> <<" ">>,
     x          |-> <<"x">>]

IdentifierPieces == {"ssn", "phone10", "phoneParen", "phoneDash", "zip", "email"}

PlainPieces == {"call", "andEmail", "space", "x"}

Pieces == IdentifierPieces \cup PlainPieces

RECURSIVE Concat(_)
Concat(ps) ==
    IF ps = <<>> THEN <<>> ELSE PieceText[Head(ps)] \o Concat(Tail(ps))

PieceSeqs == UNION {[1..n -> Pieces] : n \in 1..MaxPieces}

\* no text is being sanitized
SanOff ==
    /\ sanPieces = <<>>
    /\ sanIn = <<>>
    /\ sanOnce = <<>>
    /\ sanTwice = <<>>
    /\ sanPc = "off"

InitSanInputs ==
    /\ sanPieces \in PieceSeqs
    /\ sanIn = Concat(sanPieces)
    /\ sanOnce = <<>>
    /\ sanTwice = <<>>
    /\ sanPc = "in"

\* out = sanitize(text)
SanitizeOnce ==
    /\ sanPc = "in"
    /\ sanOnce' = Sanitize(sanIn)
    /\ sanPc' = "once"
    /\ UNCHANGED <<unitVars, sanPieces, sanIn, sanTwice, now, logVars, budgetVars, apiVars, taskVars>>

\* out2 = sanitize(out)
SanitizeAgain ==
    /\ sanPc = "once"
    /\ sanTwice' = Sanitize(sanOnce)
    /\ sanPc' = "twice"
    /\ UNCHANGED <<unitVars, sanPieces, sanIn, sanOnce, now, logVars, budgetVars, apiVars, taskVars>>

(***************************************************************************)
(* The wall clock.  It starts at 0 when the modules are imported and only  *)
(* moves forward, by a second or by a day, up to MaxDays days and MaxSecs  *)
(* seconds.                                                                *)
(***************************************************************************)
SECS_PER_DAY == 86400

MaxDays == 3

MaxSecs == 1

TickSteps == {1, SECS_PER_DAY}

ClockOk(t) == t \div SECS_PER_DAY <= MaxDays /\ t % SECS_PER_DAY <= MaxSecs

Tick(d) ==
    /\ ClockOk(now + d)
    /\ now' = now + d
    /\ UNCHANGED <<unitVars, sanVars, logVars, budgetVars, apiVars, taskVars>>

(***************************************************************************)
(* The conversation log, app/services/memory.py.                           *)
(***************************************************************************)
MaxSessions == 2

SessionIds == 1..MaxSessions

\* settings.log_retention_days
LOG_RETENTION_DAYS == 3

\* _RETENTION_SECS = settings.log_retention_days * 86_400
RETENTION_SECS == LOG_RETENTION_DAYS * SECS_PER_DAY

\* _purge_old as it would be if the sweep deleted nothing
PurgeNothing(rows, t) == rows

\* _PURGE_SQL: DELETE FROM messages WHERE created_at < cutoff
PurgeOld(rows, t) ==
    LET cutoff == t - RETENTION_SECS
    IN  {r \in rows : ~(r.created_at < cutoff)}

\* insert(session_id, text) at time t: _INSERT_SQL, then _purge_old
Insert(rows, id, t, sid, text) ==
    PurgeOld(rows \cup {[id |-> id, session_id |-> sid, created_at |-> t,
                         text |-> text]}, t)

\* _SELECT_SQL ... LIMIT ?: the rows of the session, by created_at descending,
\* cut to limit rows.  SQL leaves the order of rows of equal created_at open,
\* so every such order is a result.
FetchLastResults(rows, sid, limit) ==
    LET mine == {r \in rows : r.session_id = sid}
        n    == Min(limit, Cardinality(mine))
    IN  {q \in [1..n -> mine] :
            /\ \A i, j \in 1..n : i < j =>
                   /\ q[i] # q[j]
                   /\ q[i].created_at >= q[j].created_at
            /\ \A r \in mine : (\A i \in 1..n : q[i] # r) =>
                   \A i \in 1..n : q[i].created_at >= r.created_at}

\* the rows as fetch_last returns them: (created_at, text)
Columns(q) == [i \in DOMAIN q |-> <<q[i].created_at, q[i].text>>]

MaxInserts == 3

ReadLimits == {1, 2}

LogTexts == {<<"Q">>, <<"R">>}

InitClock == now = 0

InitLog ==
    /\ messages = {}
    /\ nextId = 1
    /\ readRows = <<>>
    /\ readAt = 0

\* memory.insert(sid, text)
LogInsert(sid, text) ==
    /\ nextId <= MaxInserts
    /\ messages' = Insert(messages, nextId, now, sid, text)
    /\ nextId' = nextId + 1
    /\ UNCHANGED <<unitVars, readRows, readAt, now, sanVars, budgetVars, apiVars, taskVars>>

\* memory.fetch_last(sid, limit)
LogFetch(sid, limit) ==
    /\ \E q \in FetchLastResults(messages, sid, limit) :
           readRows' = Columns(q)
    /\ readAt' = now
    /\ UNCHANGED <<unitVars, messages, nextId, now, sanVars, budgetVars, apiVars, taskVars>>

(***************************************************************************)
(* The usage budget, app/core/guardrails.py.                               *)
(***************************************************************************)
\* _MAX_TOKENS = settings.max_tokens_per_day, a deployment setting: a small
\* budget, so that a few words reach it
MAX_TOKENS == 3

\* len(_WORD_RE.findall(text)): the number of maximal runs of \w characters
RECURSIVE WordsFrom(_, _)
WordsFrom(text, i) ==
    IF i > Len(text)
    THEN 0
    ELSE LET n == RunLen(text, i, WordChars)
         IN  IF n > 0 THEN 1 + WordsFrom(text, i + n) ELSE WordsFrom(text, i + 1)

WordCount(text) == WordsFrom(text, 1)

EmptyBucket == [s \in {} |-> 0]

\* _bucket.get(session_id, 0)
BucketGet(b, sid) == IF sid \in DOMAIN b THEN b[sid] ELSE 0

\* _bucket[session_id] = v
BucketSet(b, sid, v) ==
    [s \in DOMAIN b \cup {sid} |-> IF s = sid THEN v ELSE b[s]]

\* _maybe_reset(): if time.time() - _reset_ts > 86_400
WindowExpired(rts, t) == t - rts > SECS_PER_DAY

\* _maybe_reset as it would be if it restarted the window and kept _bucket
MaybeResetKeepsCounters(b, rts, t) ==
    IF WindowExpired(rts, t)
    THEN [bucket |-> b, reset_ts |-> t]
    ELSE [bucket |-> b, reset_ts |-> rts]

\* _maybe_reset() at time t: the bucket and the window start it leaves
MaybeReset(b, rts, t) ==
    IF WindowExpired(rts, t)
    THEN [bucket |-> EmptyBucket, reset_ts |-> t]
    ELSE [bucket |-> b, reset_ts |-> rts]

\* the comparison as it would be with >= for >
OverBudgetAtMax(used, tokens) == used + tokens >= MAX_TOKENS

\* if used + tokens > _MAX_TOKENS
OverBudget(used, tokens) == used + tokens > MAX_TOKENS

\* the write as it would be if a denial cleared _bucket
BudgetWriteClearsAll(b, sid, used, tokens) ==
    IF OverBudget(used, tokens)
    THEN [bucket |-> BucketSet(EmptyBucket, sid, 0), ok |-> FALSE]
    ELSE [bucket |-> BucketSet(b, sid, used + tokens), ok |-> TRUE]

\* the write as it would be if a denial left the counter as it is
BudgetWriteKeepsCount(b, sid, used, tokens) ==
    IF OverBudget(used, tokens)
    THEN [bucket |-> b, ok |-> FALSE]
    ELSE [bucket |-> BucketSet(b, sid, used + tokens), ok |-> TRUE]

\* the write as it would be if a denial capped the counter at the maximum
BudgetWriteCaps(b, sid, used, tokens) ==
    IF OverBudget(used, tokens)
    THEN [bucket |-> BucketSet(b, sid, MAX_TOKENS), ok |-> FALSE]
    ELSE [bucket |-> BucketSet(b, sid, used + tokens), ok |-> TRUE]

\* lines 71-75 of within_daily_budget: the write of the counter and the result
BudgetWrite(b, sid, used, tokens) ==
    IF OverBudget(used, tokens)
    THEN [bucket |-> BucketSet(b, sid, 0), ok |-> FALSE]
    ELSE [bucket |-> BucketSet(b, sid, used + tokens), ok |-> TRUE]

\* within_daily_budget(session_id, text) at time t, run without interruption
WithinDailyBudget(b, rts, t, sid, text) ==
    LET r == MaybeReset(b, rts, t)
        w == BudgetWrite(r.bucket, sid, BucketGet(r.bucket, sid), WordCount(text))
    IN  [bucket |-> w.bucket, reset_ts |-> r.reset_ts, ok |-> w.ok]

\* the texts charged: one word, no word, an email address (three words)
ChargeTexts ==
    {<<"h", "i">>, <<"!", "!">>, <<"a", "@", "b", ".", "c", "o">>}

\* the words admitted are counted up to one more than the maximum
AdmittedCap == MAX_TOKENS + 1

NoneAdmitted == [s \in SessionIds |-> 0]

\* admitted: the words admitted to each session in the current window;
\* since: those admitted since the window started or the session was last
\* denied, whichever came later
NoCharge ==
    [sid |-> 0, text |-> <<>>, ok |-> TRUE, admitted |-> NoneAdmitted,
     since |-> NoneAdmitted]

InitBudget ==
    /\ bucket = EmptyBucket
    /\ reset_ts = 0
    /\ charged = NoCharge

\* within_daily_budget(sid, text), called on its own
Charge(sid, text) ==
    /\ LET r == WithinDailyBudget(bucket, reset_ts, now, sid, text)
           restarted == WindowExpired(reset_ts, now)
           admitted == IF restarted THEN NoneAdmitted ELSE charged.admitted
           since == IF restarted THEN NoneAdmitted ELSE charged.since
           words == WordCount(text)
       IN  /\ bucket' = r.bucket
           /\ reset_ts' = r.reset_ts
           /\ charged' =
                  [sid |-> sid, text |-> text, ok |-> r.ok,
                   admitted |->
                       [admitted EXCEPT ![sid] =
                           IF r.ok THEN Min(@ + words, AdmittedCap) ELSE @],
                   since |->
                       [since EXCEPT ![sid] =
                           IF r.ok THEN Min(@ + words, AdmittedCap) ELSE 0]]
    /\ UNCHANGED <<unitVars, now, sanVars, logVars, apiVars, taskVars>>

(***************************************************************************)
(* Emotion classification, app/services/emotion_service.py.  Scores are    *)
(* in hundredths: 25 stands for 0.25.                                      *)
(***************************************************************************)
\* _POS_THRESH = 0.25
POS_THRESH == 25

\* _NEG_THRESH = -0.25
NEG_THRESH == -25

\* SENTIMENT_TO_EMOTION
SENTIMENT_TO_EMOTION ==
    [positive |-> "excited", neutral |-> "friendly", negative |-> "caring"]

\* detect_emotion as it would be with > for >= at the positive threshold
DetectEmotionAbove(res) ==
    IF ~res.ok THEN SENTIMENT_TO_EMOTION.neutral
    ELSE IF res.score > POS_THRESH THEN SENTIMENT_TO_EMOTION.positive
    ELSE IF res.score <= NEG_THRESH THEN SENTIMENT_TO_EMOTION.negative
    ELSE SENTIMENT_TO_EMOTION.neutral

\* detect_emotion(text), given what analyze_sentiment answered: res.ok is
\* FALSE when the client or the call raised
DetectEmotion(res) ==
    IF ~res.ok THEN SENTIMENT_TO_EMOTION.neutral
    ELSE IF res.score >= POS_THRESH THEN SENTIMENT_TO_EMOTION.positive
    ELSE IF res.score <= NEG_THRESH THEN SENTIMENT_TO_EMOTION.negative
    ELSE SENTIMENT_TO_EMOTION.neutral

\* detect_kid_emotion as it would be if a failure counted as the lowest score
DetectKidEmotionFailsLow(res) ==
    IF ~res.ok \/ res.score <= NEG_THRESH THEN "sad"
    ELSE IF res.score >= POS_THRESH THEN "happy"
    ELSE "neutral"

\* detect_kid_emotion(text), given what analyze_sentiment answered
DetectKidEmotion(res) ==
    IF ~res.ok THEN "neutral"
    ELSE IF res.score >= POS_THRESH THEN "happy"
    ELSE IF res.score <= NEG_THRESH THEN "sad"
    ELSE "neutral"

\* what analyze_sentiment answers: a failure, or a score from -1.00 to 1.00
SentimentAnswers ==
    {[ok |-> FALSE, score |-> 0]} \cup {[ok |-> TRUE, score |-> s] : s \in -100..100}

\* no text is being classified
EmoOff == [pc |-> "off", res |-> [ok |-> FALSE, score |-> 0], tag |-> "", kid |-> ""]

InitEmoInputs ==
    emo \in {[EmoOff EXCEPT !.pc = "in", !.res = r] : r \in SentimentAnswers}

\* tag = detect_emotion(text)
ClassifyReply ==
    /\ emo.pc # "off"
    /\ emo.tag = ""
    /\ emo' = [emo EXCEPT !.tag = DetectEmotion(emo.res)]
    /\ UNCHANGED <<stt, exported, failures, now, sanVars, logVars, budgetVars, apiVars,
                   taskVars>>

\* kid = detect_kid_emotion(text)
ClassifyKid ==
    /\ emo.pc # "off"
    /\ emo.kid = ""
    /\ emo' = [emo EXCEPT !.kid = DetectKidEmotion(emo.res)]
    /\ UNCHANGED <<stt, exported, failures, now, sanVars, logVars, budgetVars, apiVars,
                   taskVars>>

(***************************************************************************)
(* Reply composition, app/services/gemini_service.py.  A fixed literal of  *)
(* the code is one element of a text.                                      *)
(***************************************************************************)
\* _MAX_LINES
MAX_LINES == 2

\* the characters _EMOJI_RE = [^\w\s\.,!?;:()\-\'\"\n] leaves in place
ReplyChars ==
    WordChars \cup Whitespace \cup
        {".", ",", "!", "?", ";", ":", "(", ")", "-", "'", "\""}

KeptByEmojiRe(c) == c \in ReplyChars

\* _remove_emojis(text)
RemoveEmojis(text) == SelectSeq(text, KeptByEmojiRe)

RECURSIVE LStrip(_)
LStrip(s) ==
    IF s # <<>> /\ Head(s) \in Whitespace THEN LStrip(Tail(s)) ELSE s

RECURSIVE RStrip(_)
RStrip(s) ==
    IF s # <<>> /\ s[Len(s)] \in Whitespace
    THEN RStrip(SubSeq(s, 1, Len(s) - 1))
    ELSE s

\* str.strip()
Strip(s) == RStrip(LStrip(s))

LineBreaks == {"\r", "\n"}

\* _LINE_RE.split(s), _LINE_RE = [\r\n]+
RECURSIVE SplitLines(_)
SplitLines(s) ==
    LET breaks == {i \in 1..Len(s) : s[i] \in LineBreaks}
    IN  IF breaks = {}
        THEN <<s>>
        ELSE LET i == CHOOSE b \in breaks : \A c \in breaks : b <= c
                 n == RunLen(s, i, LineBreaks)
             IN  <<SubSeq(s, 1, i - 1)>> \o SplitLines(SubSeq(s, i + n, Len(s)))

\* "\n".join(lines)
RECURSIVE JoinLines(_)
JoinLines(lines) ==
    IF Len(lines) = 0 THEN <<>>
    ELSE IF Len(lines) = 1 THEN lines[1]
    ELSE lines[1] \o <<"\n">> \o JoinLines(Tail(lines))

\* _truncate_to_lines(text)
TruncateToLines(text) ==
    LET lines == SplitLines(Strip(text))
        kept  == IF Len(lines) > MAX_LINES THEN SubSeq(lines, 1, MAX_LINES)
                 ELSE lines
    IN  Strip(JoinLines(kept))

\* the reply of get_reply when the budget denies the charge
BREAK_MESSAGE ==
    <<"We've been chatting a lot! Let's take a break and talk again later!">>

\* fallback_responses[k] of get_reply (k counts from 1); buddy_name is the
\* text the f-strings put in
FallbackResponse(k, buddy_name) ==
    CASE k = 1 -> <<"Hey ">> \o buddy_name \o
                      <<" here! That's really interesting! Tell me more about that!">>
      [] k = 2 -> <<"Wow, that's cool! I'm ">> \o buddy_name \o
                      <<" and I'd love to hear more!">>
      [] k = 3 -> <<"That's awesome! What else do you want to talk about?">>
      [] k = 4 -> <<"I'm ">> \o buddy_name \o
                      <<" and I think that's really neat! Want to tell me more?">>
      [] k = 5 -> <<"That sounds fun! I'm curious to hear more about it!">>

\* len(fallback_responses)
FallbackCount == 5

(***************************************************************************)
(* Speech to text, app/services/stt_service.py.  An audio payload is       *)
(* whether base64 decodes it, its decoded size, and what the recognizer    *)
(* answers for each encoding it is asked with.  Confidences are in         *)
(* hundredths.                                                             *)
(***************************************************************************)
\* encodings_to_try
ENCODINGS == <<"WEBM_OPUS", "LINEAR16", "FLAC">>

\* if len(audio_data) < 100
MIN_AUDIO_BYTES == 100

\* if len(audio_data) > 10 * 1024 * 1024
MAX_AUDIO_BYTES == 10 * 1024 * 1024

\* one alternative of a recognition result
Alt(transcript, confidence) ==
    [transcript |-> transcript, confidence |-> confidence]

\* one recognition result
Result(alternatives) == [alternatives |-> alternatives]

\* client.recognize raised (or the client could not be made)
Raises == [raised |-> TRUE, results |-> <<>>]

\* client.recognize answered with these results
Answers(results) == [raised |-> FALSE, results |-> results]

HearsHi == Answers(<<Result(<<Alt(<<"h", "i">>, 90)>>)>>)

\* what the recognizer answers for one encoding: an exception, no result, one
\* result, a result of only blanks, a result without alternatives, two
\* results the second of which is the more confident, two equally confident
RecognizeAnswers ==
    {Raises,
     Answers(<<>>),
     HearsHi,
     Answers(<<Result(<<Alt(<<" ">>, 90)>>)>>),
     Answers(<<Result(<<>>)>>),
     Answers(<<Result(<<Alt(<<"y", "o">>, 50)>>),
               Result(<<Alt(<<" ", "h", "i", " ">>, 90)>>)>>),
     Answers(<<Result(<<Alt(<<"y", "o">>, 90)>>),
               Result(<<Alt(<<"h", "i">>, 90)>>)>>)}

Payload(decodable, size, answers) ==
    [present |-> TRUE, decodable |-> decodable, size |-> size,
     answers |-> answers]

\* req.audio is None or blank
NoAudio ==
    [present |-> FALSE, decodable |-> TRUE, size |-> 0,
     answers |-> <<Answers(<<>>), Answers(<<>>), Answers(<<>>)>>]

\* is_audio_valid as it would be with <= for < at the lower limit
IsAudioValidAbove(audio) ==
    /\ audio.decodable
    /\ ~(audio.size <= MIN_AUDIO_BYTES)
    /\ ~(audio.size > MAX_AUDIO_BYTES)

\* is_audio_valid(audio_b64)
IsAudioValid(audio) ==
    /\ audio.decodable
    /\ ~(audio.size < MIN_AUDIO_BYTES)
    /\ ~(audio.size > MAX_AUDIO_BYTES)

\* key=lambda r: r.alternatives[0].confidence if r.alternatives else 0
ConfidenceKey(r) ==
    IF r.alternatives # <<>> THEN r.alternatives[1].confidence ELSE 0

\* max(response.results, key=...): the first result of the greatest key
BestResult(results) ==
    LET i == CHOOSE k \in DOMAIN results :
                 \A j \in DOMAIN results :
                     /\ ConfidenceKey(results[j]) <= ConfidenceKey(results[k])
                     /\ j < k => ConfidenceKey(results[j]) < ConfidenceKey(results[k])
    IN  results[i]

\* transcribe_audio has returned nothing yet and has asked for no encoding
NotHeard == [done |-> FALSE, text |-> <<>>, calls |-> <<>>]

\* except Exception as e: ... continue (lines 129-131), as if the handler
\* ended the loop
OnExceptionStop(st) == [st EXCEPT !.done = TRUE]

\* except Exception as e: ... continue (lines 129-131)
OnException(st) == st

\* if response.results: ... (lines 111-127), as if the transcript of the best
\* result were returned whatever it is
TakeBestAsIs(st, answer) ==
    IF answer.results = <<>>
    THEN st
    ELSE LET best == BestResult(answer.results)
         IN  IF best.alternatives = <<>>
             THEN st
             ELSE [st EXCEPT !.done = TRUE,
                             !.text = Strip(best.alternatives[1].transcript)]

\* if response.results: ... (lines 111-127)
TakeBest(st, answer) ==
    IF answer.results = <<>>
    THEN st
    ELSE LET best == BestResult(answer.results)
             transcribed_text ==
                 IF best.alternatives = <<>> THEN <<>>
                 ELSE Strip(best.alternatives[1].transcript)
         IN  IF best.alternatives # <<>> /\ Len(transcribed_text) > 0
             THEN [st EXCEPT !.done = TRUE, !.text = transcribed_text]
             ELSE st

\* one pass of for encoding in encodings_to_try, with the recognizer's answer
Attempt(st, e, answer) ==
    LET called == [st EXCEPT !.calls = Append(@, ENCODINGS[e])]
    IN  IF answer.raised THEN OnException(called) ELSE TakeBest(called, answer)

RECURSIVE TranscribeFrom(_, _, _)
TranscribeFrom(answers, e, st) ==
    IF st.done \/ e > Len(ENCODINGS)
    THEN st
    ELSE TranscribeFrom(answers, e + 1, Attempt(st, e, answers[e]))

\* transcribe_audio(audio_b64): the transcript, <<>> for None, and the
\* encodings the recognizer was asked with
TranscribeAudio(audio) ==
    IF ~audio.decodable
    THEN [text |-> <<>>, calls |-> <<>>]
    ELSE LET st == TranscribeFrom(audio.answers, 1, NotHeard)
         IN  [text |-> st.text, calls |-> st.calls]

\* the payloads transcribe_audio is run on
SttAudios ==
    {Payload(TRUE, MIN_AUDIO_BYTES, <<a, b, c>>) : a, b, c \in RecognizeAnswers}
        \cup {Payload(FALSE, 0, <<HearsHi, HearsHi, HearsHi>>)}

\* no payload is being transcribed
SttOff == [pc |-> "off", audio |-> NoAudio, out |-> [text |-> <<>>, calls |-> <<>>]]

InitSttInputs == stt \in {[SttOff EXCEPT !.pc = "in", !.audio = a] : a \in SttAudios}

\* out = transcribe_audio(audio_b64)
Transcribe ==
    /\ stt.pc = "in"
    /\ stt' = [stt EXCEPT !.pc = "done", !.out = TranscribeAudio(stt.audio)]
    /\ UNCHANGED <<emo, exported, failures, now, sanVars, logVars, budgetVars, apiVars,
                   taskVars>>

(***************************************************************************)
(* The routes, app/api/v1/chat.py.  Every route is an async def: the       *)
(* server's event loop runs one handler at a time and switches to another  *)
(* request only where a handler suspends.  chat awaits get_reply, which    *)
(* never suspends, so the loop stays with a chat request from its first    *)
(* statement to its return: Chat is one step.                              *)
(***************************************************************************)
\* one component invoked by a turn, with the user text handed to it
Call(op, text) == [op |-> op, text |-> text]

\* the profiles setup is called with
KidNames == {"Mia"}

Ages == {7}

\* SetupRequest.buddy_name is any string of at most 30 characters: a plain
\* name, and one with line breaks in it
PlainNames == {<<"Sparkle">>}

BuddyNames == PlainNames \cup {<<"Bo", "\n", "Jo", "\n", "Mo">>}

\* the requests chat is called with
ChatMessages ==
    {<<"h", "i", " ", "y", "o">>,            \* two words
     <<"a", "@", "b", ".", "c", "o">>,       \* an email address
     <<"!", "!">>,                           \* not blank, no word
     <<" ">>}                                \* blank

\* audio payloads: one byte too small, the smallest (nothing heard in it),
\* the largest (heard at the second encoding), one byte too large, not base64
ChatAudios ==
    {Payload(TRUE, MIN_AUDIO_BYTES - 1, <<HearsHi, HearsHi, HearsHi>>),
     Payload(TRUE, MIN_AUDIO_BYTES, <<Answers(<<>>), Raises, Answers(<<>>)>>),
     Payload(TRUE, MAX_AUDIO_BYTES, <<Raises, HearsHi, HearsHi>>),
     Payload(TRUE, MAX_AUDIO_BYTES + 1, <<HearsHi, HearsHi, HearsHi>>),
     Payload(FALSE, 0, <<HearsHi, HearsHi, HearsHi>>)}

ChatInputs ==
    {[message |-> m, audio |-> NoAudio] : m \in ChatMessages}
        \cup {[message |-> <<>>, audio |-> a] : a \in ChatAudios \cup {NoAudio}}

\* what the sentiment collaborator answers in a chat turn
ChatSentiments == {[ok |-> FALSE, score |-> 0], [ok |-> TRUE, score |-> 25]}

\* the lines random.choice is seen to pick: one that names the buddy, one
\* that does not
FallbackPicks == {1, 3}

\* what the generation collaborator answers, its text or a failure, and the
\* line random.choice picks after a failure
ChatGenerations ==
    {[ok |-> TRUE, pick |-> 1,
      text |-> <<"o", "#", "\n", "\n", "k", "\r", "\n", "x", "\n">>]}
        \cup {[ok |-> FALSE, text |-> <<>>, pick |-> k] : k \in FallbackPicks}

\* what the collaborators answer during one turn: at most one of them fails
Failures(o) ==
    (IF o.kid.ok THEN 0 ELSE 1) + (IF o.gen.ok THEN 0 ELSE 1)
        + (IF o.reply.ok THEN 0 ELSE 1) + (IF o.tts THEN 0 ELSE 1)

ChatOutcomes ==
    {o \in [kid : ChatSentiments, gen : ChatGenerations,
            reply : ChatSentiments, tts : BOOLEAN] : Failures(o) <= 1}

\* every collaborator answers
AllWell ==
    CHOOSE o \in ChatOutcomes : Failures(o) = 0

\* synthesize as it would be if a failure still returned audio
SynthesizeAnyway(ok) == "mp3"

\* synthesize(text, emotion): the base64 MP3, "" when the synthesis failed
Synthesize(ok) == IF ok THEN "mp3" ELSE ""

\* req.message.strip() / req.audio.strip() is not empty
NonBlank(text) == Strip(text) # <<>>

\* f"Q: {user_message}\nA: {text_reply}"
ExchangeText(user_message, text_reply) ==
    <<"Q: ">> \o user_message \o <<"\n", "A: ">> \o text_reply

\* chat, lines 149-175: the user message, from the audio or from the text;
\* status 400 is the HTTPException raised
ChatUserMessage(input) ==
    LET heard == TranscribeAudio(input.audio)
    IN  IF input.audio.present
        THEN IF ~IsAudioValid(input.audio)
             THEN [status |-> 400, user_message |-> <<>>, calls |-> <<>>,
                   recognized |-> <<>>, detail |-> "Invalid audio data"]
             ELSE IF heard.text # <<>>
             THEN [status |-> 0, user_message |-> heard.text,
                   calls |-> <<Call("transcribe", <<>>)>>,
                   recognized |-> heard.calls, detail |-> ""]
             ELSE [status |-> 400, user_message |-> <<>>,
                   calls |-> <<Call("transcribe", <<>>)>>,
                   recognized |-> heard.calls,
                   detail |-> "Could not understand audio. Please try speaking clearly!"]
        ELSE IF NonBlank(input.message)
             THEN [status |-> 0, user_message |-> input.message, calls |-> <<>>,
                   recognized |-> <<>>, detail |-> ""]
             ELSE [status |-> 400, user_message |-> <<>>, calls |-> <<>>,
                   recognized |-> <<>>,
                   detail |-> "Please provide either text or audio input"]

\* sanitize on each user message the requests bring, worked out once
SanitizedMessages ==
    [m \in {ChatUserMessage(i).user_message : i \in ChatInputs} |-> Sanitize(m)]

\* get_reply as it would be if it asked for a generation before it looked at
\* the result of the charge
GetReplyAsksFirst(b, rts, t, sid, user_text, buddy_name, gen) ==
    LET charge == WithinDailyBudget(b, rts, t, sid, user_text)
        used == BucketGet(MaybeReset(b, rts, t).bucket, sid)
        calls == <<Call("budget", user_text), Call("sanitize", user_text),
                   Call("generate", Sanitize(user_text))>>
    IN  [bucket |-> charge.bucket, reset_ts |-> charge.reset_ts,
         denied |-> ~charge.ok, used |-> used,
         text_reply |->
             IF ~charge.ok THEN BREAK_MESSAGE
             ELSE IF gen.ok THEN TruncateToLines(RemoveEmojis(gen.text))
             ELSE FallbackResponse(gen.pick, buddy_name),
         calls |-> calls]

\* get_reply(session_id, user_text, buddy_name, ...) at time t, gen being what
\* the generation collaborator answers if it is called
GetReply(b, rts, t, sid, user_text, buddy_name, gen) ==
    LET charge == WithinDailyBudget(b, rts, t, sid, user_text)
        used == BucketGet(MaybeReset(b, rts, t).bucket, sid)
        clean_text == IF user_text \in DOMAIN SanitizedMessages
                      THEN SanitizedMessages[user_text]
                      ELSE Sanitize(user_text)
    IN  IF ~charge.ok
        THEN [bucket |-> charge.bucket, reset_ts |-> charge.reset_ts,
              denied |-> TRUE, used |-> used,
              text_reply |-> BREAK_MESSAGE,
              calls |-> <<Call("budget", user_text)>>]
        ELSE [bucket |-> charge.bucket, reset_ts |-> charge.reset_ts,
              denied |-> FALSE, used |-> used,
              text_reply |->
                  IF gen.ok THEN TruncateToLines(RemoveEmojis(gen.text))
                  ELSE FallbackResponse(gen.pick, buddy_name),
              calls |-> <<Call("budget", user_text),
                          Call("sanitize", user_text),
                          Call("generate", clean_text)>>]

MaxTurns == 2

\* no request has been answered yet
NoTurn ==
    [route |-> "", status |-> 0, sid |-> 0, message |-> <<>>, audio |-> NoAudio,
     outcome |-> AllWell, user_message |-> <<>>, kid_emotion |-> "",
     denied |-> FALSE, used |-> 0, text |-> <<>>, emotion |-> "",
     audio_b64 |-> "", transcribed |-> <<>>, calls |-> <<>>, recognized |-> <<>>,
     detail |-> "", failed |-> ""]

InitApi ==
    /\ sessions = EmptyBucket
    /\ last = NoTurn

\* setup as it would be if it gave the id of the first session again
SetupReusesId(kid_name, age, buddy_name) ==
    /\ loop = 0
    /\ sessions' =
           [s \in DOMAIN sessions \cup {1} |->
               IF s = 1
               THEN [kid_name |-> kid_name, age |-> age, buddy_name |-> buddy_name]
               ELSE sessions[s]]
    /\ UNCHANGED <<unitVars, last, now, sanVars, logVars, budgetVars, taskVars>>

\* setup(req): the new id is uuid4().hex, an id no session has
Setup(kid_name, age, buddy_name) ==
    /\ loop = 0
    /\ \E sid \in SessionIds :
           /\ sid \notin DOMAIN sessions
           /\ \A other \in SessionIds : other < sid => other \in DOMAIN sessions
           /\ sessions' =
                  [s \in DOMAIN sessions \cup {sid} |->
                      IF s = sid
                      THEN [kid_name |-> kid_name, age |-> age,
                            buddy_name |-> buddy_name]
                      ELSE sessions[s]]
    /\ UNCHANGED <<unitVars, last, now, sanVars, logVars, budgetVars, taskVars>>

\* status.HTTP_500_INTERNAL_SERVER_ERROR
INTERNAL_ERROR == 500

\* the detail of the HTTPException of _validate_session
SESSION_NOT_FOUND == "Session not found. Please setup again."

\* the detail of the HTTPException of chat's except Exception
GENERIC_FAILURE == "Oops, something went wrong. Let's try again!"

\* an HTTPException raised in chat's try as it would leave if except
\* Exception caught it
ChatAnyException(raised) ==
    [status |-> INTERNAL_ERROR, detail |-> GENERIC_FAILURE]

\* chat, lines 212-214: except HTTPException: raise
ChatHttpException(raised) == raised

\* chat(req), lines 141-217, for a request the session check rejects (404) or
\* the input check rejects (400)
ChatRejected(sid, input) ==
    /\ loop = 0
    /\ nextId <= MaxTurns
    /\ LET um == ChatUserMessage(input)
           raised == IF sid \notin DOMAIN sessions
                     THEN [status |-> 404, detail |-> SESSION_NOT_FOUND]
                     ELSE [status |-> um.status, detail |-> um.detail]
           status == raised.status
       IN  /\ status # 0
           /\ last' = [NoTurn EXCEPT
                  !.route = "chat",
                  !.status = ChatHttpException(raised).status,
                  !.detail = ChatHttpException(raised).detail,
                  !.sid = sid, !.message = input.message,
                  !.audio = input.audio,
                  !.calls = IF status = 404 THEN <<Call("lookup", <<>>)>>
                            ELSE <<Call("lookup", <<>>)>> \o um.calls,
                  !.recognized = IF status = 404 THEN <<>> ELSE um.recognized]
    /\ UNCHANGED <<unitVars, sessions, now, sanVars, logVars, budgetVars, taskVars>>

\* chat(req), lines 141-211, for a request that gets a reply
Chat(sid, input, out) ==
    /\ loop = 0
    /\ nextId <= MaxTurns
    /\ sid \in DOMAIN sessions
    /\ LET um == ChatUserMessage(input)
           user_message == um.user_message
           kid_emotion == DetectKidEmotion(out.kid)
           reply == GetReply(bucket, reset_ts, now, sid, user_message,
                             sessions[sid].buddy_name, out.gen)
           emotion_tag == DetectEmotion(out.reply)
           audio_b64 == Synthesize(out.tts)
       IN  /\ um.status = 0
           /\ bucket' = reply.bucket
           /\ reset_ts' = reply.reset_ts
           /\ messages' = Insert(messages, nextId, now, sid,
                                 ExchangeText(user_message, reply.text_reply))
           /\ nextId' = nextId + 1
           /\ last' =
                  [route |-> "chat", status |-> 200, sid |-> sid,
                   message |-> input.message, audio |-> input.audio,
                   outcome |-> out, recognized |-> um.recognized,
                   detail |-> "", failed |-> "",
                   user_message |-> user_message,
                   kid_emotion |-> kid_emotion, denied |-> reply.denied,
                   used |-> reply.used, text |-> reply.text_reply,
                   emotion |-> emotion_tag, audio_b64 |-> audio_b64,
                   transcribed |-> IF input.audio.present THEN user_message
                                   ELSE <<>>,
                   calls |-> <<Call("lookup", <<>>)>> \o um.calls
                       \o <<Call("kid_sentiment", user_message)>>
                       \o reply.calls
                       \o <<Call("reply_sentiment", <<>>),
                            Call("synthesize", <<>>),
                            Call("insert", user_message)>>]
    /\ UNCHANGED <<unitVars, charged, readRows, readAt, sessions, now, sanVars, taskVars>>

MaxFailures == 1

\* chat(req), lines 141-217, for a request whose log append raises (the
\* database is out of reach): except Exception answers with the 500, after the
\* budget was charged
ChatFailed(sid, input) ==
    /\ loop = 0
    /\ nextId <= MaxTurns
    /\ failures < MaxFailures
    /\ failures' = failures + 1
    /\ sid \in DOMAIN sessions
    /\ LET um == ChatUserMessage(input)
           user_message == um.user_message
           reply == GetReply(bucket, reset_ts, now, sid, user_message,
                             sessions[sid].buddy_name, AllWell.gen)
       IN  /\ um.status = 0
           /\ bucket' = reply.bucket
           /\ reset_ts' = reply.reset_ts
           /\ last' =
                  [NoTurn EXCEPT
                      !.route = "chat", !.status = INTERNAL_ERROR,
                      !.detail = GENERIC_FAILURE, !.failed = "insert",
                      !.sid = sid, !.message = input.message,
                      !.audio = input.audio, !.recognized = um.recognized,
                      !.user_message = user_message,
                      !.denied = reply.denied, !.used = reply.used,
                      !.calls = <<Call("lookup", <<>>)>> \o um.calls
                          \o <<Call("kid_sentiment", user_message)>>
                          \o reply.calls
                          \o <<Call("reply_sentiment", <<>>),
                               Call("synthesize", <<>>),
                               Call("insert", user_message)>>]
    /\ UNCHANGED <<emo, stt, exported, charged, logVars, sessions, now, sanVars,
                   taskVars>>

\* get_welcome_reply(...)
WELCOME_REPLY == <<"Hey whatsup!!">>

\* welcome as it would be if get_welcome_reply charged the budget for its
\* reply as get_reply does for the user's text
WelcomeCharges(sid, replyRes, ttsOk) ==
    /\ loop = 0
    /\ nextId <= MaxTurns
    /\ LET charge == WithinDailyBudget(bucket, reset_ts, now, sid, <<"h", "i">>)
       IN  /\ bucket' = IF sid \in DOMAIN sessions THEN charge.bucket ELSE bucket
           /\ reset_ts' =
                  IF sid \in DOMAIN sessions THEN charge.reset_ts ELSE reset_ts
    /\ last' =
           IF sid \notin DOMAIN sessions
           THEN [NoTurn EXCEPT !.route = "welcome", !.status = 404, !.sid = sid]
           ELSE [NoTurn EXCEPT !.route = "welcome", !.status = 200, !.sid = sid,
                               !.text = <<"Hey whatsup!!">>]
    /\ UNCHANGED <<unitVars, charged, sessions, now, sanVars, logVars, taskVars>>

\* welcome(req), lines 104-130
Welcome(sid, replyRes, ttsOk) ==
    /\ loop = 0
    /\ nextId <= MaxTurns
    /\ last' =
           IF sid \notin DOMAIN sessions
           THEN [NoTurn EXCEPT !.route = "welcome", !.status = 404, !.sid = sid,
                               !.calls = <<Call("lookup", <<>>)>>]
           ELSE [NoTurn EXCEPT
                    !.route = "welcome", !.status = 200, !.sid = sid,
                    !.outcome = [AllWell EXCEPT !.reply = replyRes, !.tts = ttsOk],
                    !.text = WELCOME_REPLY,
                    !.emotion = DetectEmotion(replyRes),
                    !.audio_b64 = Synthesize(ttsOk),
                    !.calls = <<Call("lookup", <<>>), Call("reply_sentiment", <<>>),
                                Call("synthesize", <<>>)>>]
    /\ UNCHANGED <<unitVars, sessions, now, sanVars, logVars, budgetVars, taskVars>>

\* PARENT_PIN
PARENT_PIN == "1234"

\* the PINs export_logs is called with
Pins == {PARENT_PIN, "0000"}

\* get_logs: fetch_last(session_id, limit=1000)
GET_LOGS_LIMIT == 1000

\* [text for _, text in logs]
Texts(rows) == [i \in DOMAIN rows |-> rows[i][2]]

\* no export has been asked for
NoExport == [sid |-> 0, pin |-> "", status |-> 0, logs |-> <<>>, total |-> 0]

\* export_logs(req), lines 220-250: 404 without the session, 401 with another
\* PIN; the HTTPException for no logs is raised inside the try and leaves as
\* the 500 of except Exception
ExportLogs(sid, pin) ==
    /\ loop = 0
    /\ \E q \in FetchLastResults(messages, sid, GET_LOGS_LIMIT) :
           LET logs == Texts(Columns(q))
               status == IF sid \notin DOMAIN sessions THEN 404
                         ELSE IF pin # PARENT_PIN THEN 401
                         ELSE IF logs = <<>> THEN 500
                         ELSE 200
           IN  exported' =
                   [sid |-> sid, pin |-> pin, status |-> status,
                    logs |-> IF status = 200 THEN logs ELSE <<>>,
                    total |-> IF status = 200 THEN Len(logs) ELSE 0]
    /\ UNCHANGED <<emo, stt, failures, last, sessions, now, sanVars, logVars,
                   budgetVars, taskVars>>

\* in a run of the service the clock is looked at a day and a second apart
ChatTickSteps == {SECS_PER_DAY + 1}

(***************************************************************************)
(* The budget charge of concurrent chat requests, statement by statement.  *)
(* Each request is a task of the event loop; between the statements of     *)
(* within_daily_budget the loop could only switch tasks if the handler     *)
(* suspended there.                                                        *)
(***************************************************************************)
MaxTasks == 2

Tasks == 1..MaxTasks

\* the scheduling as it would be if each request ran on a thread of its own
AnyThreadRuns(t) == TRUE

\* the event loop is free for task t, or already running it
LoopRuns(t) == loop \in {0, t}

IdleTask ==
    [pc |-> "idle", sid |-> 0, text |-> <<>>, used |-> 0, tokens |-> 0,
     ok |-> TRUE, serial_ok |-> TRUE]

InitTasks ==
    /\ loop = 0
    /\ task = [t \in Tasks |-> IdleTask]
    /\ serial = [bucket |-> EmptyBucket, reset_ts |-> 0]

\* a chat request of a session that is set up arrives: the server makes a
\* task for it
Submit(t, sid, text) ==
    /\ task[t].pc = "idle"
    /\ sid \in DOMAIN sessions
    /\ task' = [task EXCEPT ![t] =
           [IdleTask EXCEPT !.pc = "ready", !.sid = sid, !.text = text]]
    /\ UNCHANGED <<unitVars, loop, serial, apiVars, now, sanVars, logVars, budgetVars>>

\* the loop starts the task: chat runs up to get_reply's call of
\* within_daily_budget
ChatBegin(t) ==
    /\ task[t].pc = "ready"
    /\ LoopRuns(t)
    /\ loop' = t
    /\ task' = [task EXCEPT ![t].pc = "charge_reset"]
    /\ UNCHANGED <<unitVars, serial, apiVars, now, sanVars, logVars, budgetVars>>

\* within_daily_budget line 68: _maybe_reset().  serial is the bucket of the
\* charges made one after the other, each whole, in the order they start.
ChargeReset(t) ==
    /\ task[t].pc = "charge_reset"
    /\ LoopRuns(t)
    /\ LET r == MaybeReset(bucket, reset_ts, now)
           whole == WithinDailyBudget(serial.bucket, serial.reset_ts, now,
                                      task[t].sid, task[t].text)
       IN  /\ bucket' = r.bucket
           /\ reset_ts' = r.reset_ts
           /\ serial' = [bucket |-> whole.bucket, reset_ts |-> whole.reset_ts]
           /\ task' = [task EXCEPT ![t].pc = "charge_read",
                                   ![t].serial_ok = whole.ok]
    /\ UNCHANGED <<unitVars, charged, loop, apiVars, now, sanVars, logVars>>

\* within_daily_budget lines 69-70: tokens and used
ChargeRead(t) ==
    /\ task[t].pc = "charge_read"
    /\ LoopRuns(t)
    /\ task' = [task EXCEPT
           ![t].tokens = WordCount(task[t].text),
           ![t].used = BucketGet(bucket, task[t].sid),
           ![t].pc = "charge_write"]
    /\ UNCHANGED <<unitVars, loop, serial, apiVars, now, sanVars, logVars, budgetVars>>

\* within_daily_budget lines 71-75
ChargeWrite(t) ==
    /\ task[t].pc = "charge_write"
    /\ LoopRuns(t)
    /\ LET w == BudgetWrite(bucket, task[t].sid, task[t].used, task[t].tokens)
       IN  /\ bucket' = w.bucket
           /\ task' = [task EXCEPT ![t].ok = w.ok, ![t].pc = "charged"]
    /\ UNCHANGED <<unitVars, reset_ts, charged, loop, serial, apiVars, now, sanVars,
                   logVars>>

\* gemini_model.generate_content(messages), a call that blocks the thread of
\* the event loop, never returns: the handler stays where it is and the loop
\* stays with it
CollaboratorHangs(t) ==
    /\ task[t].pc = "charged"
    /\ LoopRuns(t)
    /\ task' = [task EXCEPT ![t].pc = "hung"]
    /\ UNCHANGED <<unitVars, loop, serial, apiVars, now, sanVars, logVars, budgetVars>>

\* the rest of get_reply and of chat, up to the response: the loop is free
ChatEnd(t) ==
    /\ task[t].pc = "charged"
    /\ LoopRuns(t)
    /\ loop' = 0
    /\ task' = [task EXCEPT ![t] = IdleTask]
    /\ UNCHANGED <<unitVars, serial, apiVars, now, sanVars, logVars, budgetVars>>

(***************************************************************************)
(* Specifications.                                                         *)
(***************************************************************************)
\* sanitize on every text of up to MaxPieces pieces, applied twice
InitSan ==
    /\ InitSanInputs /\ InitClock /\ InitLog /\ InitBudget /\ InitApi /\ InitTasks
    /\ emo = EmoOff /\ stt = SttOff /\ exported = NoExport /\ failures = 0

NextSan == SanitizeOnce \/ SanitizeAgain

SpecSan == InitSan /\ [][NextSan]_vars

\* the conversation log under inserts and reads at any times
InitLogSpec ==
    /\ SanOff /\ InitClock /\ InitLog /\ InitBudget /\ InitApi /\ InitTasks
    /\ emo = EmoOff /\ stt = SttOff /\ exported = NoExport /\ failures = 0

NextLog ==
    \/ \E sid \in SessionIds, text \in LogTexts : LogInsert(sid, text)
    \/ \E sid \in SessionIds, limit \in ReadLimits : LogFetch(sid, limit)
    \/ \E d \in TickSteps : Tick(d)

SpecLog == InitLogSpec /\ [][NextLog]_vars

\* the usage budget under charges at any times
InitBudgetSpec ==
    /\ SanOff /\ InitClock /\ InitLog /\ InitBudget /\ InitApi /\ InitTasks
    /\ emo = EmoOff /\ stt = SttOff /\ exported = NoExport /\ failures = 0

NextBudget ==
    \/ \E sid \in SessionIds, text \in ChargeTexts : Charge(sid, text)
    \/ \E d \in TickSteps : Tick(d)

SpecBudget == InitBudgetSpec /\ [][NextBudget]_vars

\* the service: setup and chat requests, served by one event loop
Init ==
    /\ SanOff /\ InitClock /\ InitLog /\ InitBudget /\ InitApi /\ InitTasks
    /\ emo = EmoOff /\ stt = SttOff /\ exported = NoExport /\ failures = 0

Next ==
    \/ \E k \in KidNames, a \in Ages, b \in PlainNames : Setup(k, a, b)
    \/ \E sid \in SessionIds, input \in ChatInputs : ChatRejected(sid, input)
    \/ \E sid \in SessionIds, input \in ChatInputs, out \in ChatOutcomes :
           Chat(sid, input, out)
    \/ \E sid \in SessionIds, replyRes \in ChatSentiments, ttsOk \in BOOLEAN :
           Welcome(sid, replyRes, ttsOk)
    \/ \E d \in ChatTickSteps : Tick(d)

Spec == Init /\ [][Next]_vars

\* the two classifiers on every answer of the sentiment collaborator
InitEmotion ==
    /\ SanOff /\ InitClock /\ InitLog /\ InitBudget /\ InitApi /\ InitTasks
    /\ InitEmoInputs /\ stt = SttOff /\ exported = NoExport /\ failures = 0

NextEmotion == ClassifyReply \/ ClassifyKid

SpecEmotion == InitEmotion /\ [][NextEmotion]_vars

\* sessions, their records and the exports of them
NextExport ==
    \/ \E k \in KidNames, a \in Ages, b \in PlainNames : Setup(k, a, b)
    \/ \E sid \in SessionIds, text \in LogTexts : LogInsert(sid, text)
    \/ \E sid \in SessionIds, pin \in Pins : ExportLogs(sid, pin)
    \/ \E d \in ChatTickSteps : Tick(d)

SpecExport == Init /\ [][NextExport]_vars

\* the chat turns a persona name is seen in: a text message, and every line
\* random.choice can pick when the generation fails
PersonaInputs == {[message |-> <<"h", "i", " ", "y", "o">>, audio |-> NoAudio]}

PersonaOutcomes ==
    {AllWell} \cup
        {[AllWell EXCEPT !.gen = [ok |-> FALSE, text |-> <<>>, pick |-> k]] :
            k \in 1..FallbackCount}

\* sessions of any persona name and their chat turns
NextPersona ==
    \/ \E k \in KidNames, a \in Ages, b \in BuddyNames : Setup(k, a, b)
    \/ \E sid \in SessionIds, input \in PersonaInputs, out \in PersonaOutcomes :
           Chat(sid, input, out)
    \/ \E d \in ChatTickSteps : Tick(d)

SpecPersona == Init /\ [][NextPersona]_vars

\* the chat requests of the whole service: one that is answered, and every
\* one that is rejected
ServiceInputs ==
    {i \in ChatInputs :
        ChatUserMessage(i).status # 0 \/ i.message = <<"h", "i", " ", "y", "o">>}

\* the whole service: every route, and the log append that raises
NextService ==
    \/ \E k \in KidNames, a \in Ages, b \in BuddyNames : Setup(k, a, b)
    \/ \E sid \in SessionIds, input \in ServiceInputs : ChatRejected(sid, input)
    \/ \E sid \in SessionIds, input \in ServiceInputs : Chat(sid, input, AllWell)
    \/ \E sid \in SessionIds, input \in ServiceInputs : ChatFailed(sid, input)
    \/ \E sid \in SessionIds : Welcome(sid, AllWell.reply, AllWell.tts)
    \/ \E sid \in SessionIds, pin \in Pins : ExportLogs(sid, pin)
    \/ \E d \in ChatTickSteps : Tick(d)

SpecService == Init /\ [][NextService]_vars

\* transcribe_audio on every payload
InitStt ==
    /\ SanOff /\ InitClock /\ InitLog /\ InitBudget /\ InitApi /\ InitTasks
    /\ emo = EmoOff /\ InitSttInputs /\ exported = NoExport /\ failures = 0

NextStt == Transcribe

SpecStt == InitStt /\ [][NextStt]_vars

\* concurrent chat requests charging the budget
NextCharge ==
    \/ \E k \in KidNames, a \in Ages, b \in PlainNames : Setup(k, a, b)
    \/ \E t \in Tasks, sid \in SessionIds, text \in ChargeTexts :
           Submit(t, sid, text)
    \/ \E t \in Tasks : ChatBegin(t)
    \/ \E t \in Tasks : ChargeReset(t)
    \/ \E t \in Tasks : ChargeRead(t)
    \/ \E t \in Tasks : ChargeWrite(t)
    \/ \E t \in Tasks : ChatEnd(t)
    \/ \E d \in ChatTickSteps : Tick(d)

SpecCharge == Init /\ [][NextCharge]_vars

\* the message of the requests that may hang
HangTexts == {<<"h", "i">>}

\* concurrent chat requests, any of which may hang in a collaborator call
NextHang ==
    \/ \E k \in KidNames, a \in Ages, b \in PlainNames : Setup(k, a, b)
    \/ \E t \in Tasks, sid \in SessionIds, text \in HangTexts :
           Submit(t, sid, text)
    \/ \E t \in Tasks : ChatBegin(t)
    \/ \E t \in Tasks : ChargeReset(t)
    \/ \E t \in Tasks : ChargeRead(t)
    \/ \E t \in Tasks : ChargeWrite(t)
    \/ \E t \in Tasks : CollaboratorHangs(t)
    \/ \E t \in Tasks : ChatEnd(t)

\* the event loop runs every task that is ready: its queue of ready tasks is
\* first in, first out, and a handler that is running goes on running
FairLoop ==
    \A t \in Tasks :
        /\ SF_vars(ChatBegin(t))
        /\ WF_vars(ChargeReset(t))
        /\ WF_vars(ChargeRead(t))
        /\ WF_vars(ChargeWrite(t))
        /\ WF_vars(ChatEnd(t) \/ CollaboratorHangs(t))

SpecHang == Init /\ [][NextHang]_vars /\ FairLoop

(***************************************************************************)
(* The claims.                                                             *)
(***************************************************************************)
\* C1: once a record has been appended, no read returns a record whose age
\* at the time of the read exceeds the retention window.
C1_ReadsWithinRetention ==
    nextId > 1 =>
        \A i \in DOMAIN readRows : readAt - readRows[i][1] <= RETENTION_SECS

\* the words of the session counted in the window the call falls in: none
\* when the call starts a new window
UsedInWindow(sid) ==
    IF now - reset_ts > SECS_PER_DAY THEN 0
    ELSE IF sid \in DOMAIN bucket THEN bucket[sid] ELSE 0

\* C2: within_daily_budget(s, x) with the session's count plus the words of
\* x above the maximum returns False and sets the counter of s to 0, so that
\* the next charge starts from 0; otherwise it returns True and the counter
\* becomes the sum.
C2_ChargeDeniesAndResets ==
    [][\A s \in SessionIds, x \in ChargeTexts :
           Charge(s, x) =>
               LET sum == UsedInWindow(s) + WordCount(x)
               IN  /\ s \in DOMAIN bucket'
                   /\ IF sum > MAX_TOKENS
                      THEN ~charged'.ok /\ bucket'[s] = 0
                      ELSE charged'.ok /\ bucket'[s] = sum]_vars

\* a charge has been denied, and the counter of its session is 0
C2_Witness ==
    /\ charged.sid \in DOMAIN bucket
    /\ ~charged.ok
    /\ WordCount(charged.text) <= MAX_TOKENS
    /\ bucket[charged.sid] = 0

\* the counters of the sessions other than a are left as they are
OthersKept(a) ==
    \A b \in SessionIds \ {a} : BucketGet(bucket', b) = BucketGet(bucket, b)

\* C3 as stated: a call within_daily_budget(A, text) never changes the
\* counter of another session B, also when it finds the window expired.
C3_AnyChargeKeepsOthers ==
    [][\A a \in SessionIds, x \in ChargeTexts : Charge(a, x) => OthersKept(a)]_vars

\* C3, for the calls that the code does keep apart: a call
\* within_daily_budget(A, text) that does not find the 24 h window expired
\* never changes the counter of another session B.
C3_ChargeInWindowKeepsOthers ==
    [][\A a \in SessionIds, x \in ChargeTexts :
           Charge(a, x) /\ now - reset_ts <= SECS_PER_DAY => OthersKept(a)]_vars

\* session A has just been denied in the window in which B has words counted
C3_Witness ==
    /\ charged.sid \in SessionIds
    /\ ~charged.ok
    /\ now - reset_ts <= SECS_PER_DAY
    /\ \E b \in DOMAIN bucket : b # charged.sid /\ bucket[b] > 0

\* task t is between the first and the last statement of within_daily_budget
InCharge(t) == task[t].pc \in {"charge_reset", "charge_read", "charge_write"}

\* C4: the read, the comparison and the write of one charge are never
\* interleaved with those of another charge or with a window reset: no two
\* requests are inside within_daily_budget together, the counter a charge is
\* about to write from is the counter as it is, and the counters, the window
\* and the results are those of the charges made one after the other.
C4_ChargesAreSerial ==
    /\ \A t, u \in Tasks : t # u => ~(InCharge(t) /\ InCharge(u))
    /\ \A t \in Tasks :
           task[t].pc = "charge_write" =>
               task[t].used = BucketGet(bucket, task[t].sid)
    /\ \A t \in Tasks : task[t].pc = "charged" => task[t].ok = task[t].serial_ok
    /\ (\A t \in Tasks : ~InCharge(t)) =>
           bucket = serial.bucket /\ reset_ts = serial.reset_ts

\* one request is about to write the counter while another request of the
\* same session waits to charge it
C4_Witness ==
    \E t, u \in Tasks :
        /\ t # u
        /\ task[t].pc = "charge_write"
        /\ task[u].pc = "ready"
        /\ task[u].sid = task[t].sid
        /\ task[t].used > 0

\* the last request was answered with a reply by a session that had reached
\* the maximum in the window
AtMaximum == last.status = 200 /\ last.used >= MAX_TOKENS

\* the reply is the break message and the counter of the session is 0
TookBreak ==
    last.text = BREAK_MESSAGE /\ BucketGet(bucket, last.sid) = 0

\* C5 as stated: once a session has reached the maximum in a window, its
\* next chat call, whatever its non-blank message, returns the break message
\* and leaves the counter at 0.
C5_AnyMessageTakesBreak == AtMaximum => TookBreak

\* the text has a word: a letter, a digit or an underscore
HasWord(text) == \E i \in DOMAIN text : text[i] \in WordChars

\* C5, for the messages the budget counts: once a session has reached the
\* maximum in a window, its next chat call with a message of at least one
\* word returns the break message and leaves the counter at 0.
C5_WordedMessageTakesBreak ==
    AtMaximum /\ HasWord(last.user_message) => TookBreak

\* a session at the maximum has sent a message with a word and got the break
\* message
C5_Witness ==
    /\ AtMaximum
    /\ HasWord(last.user_message)
    /\ last.denied
    /\ TookBreak

\* the components that consume the user's text
TextConsumers == {"kid_sentiment", "budget", "generate", "insert"}

\* C6: in every chat turn the text given to the sentiment collaborator, the
\* text the budget counts, the text sent to the generation collaborator and
\* the user text written to the log are the redacted text.
C6_ConsumersGetRedacted ==
    last.status = 200 =>
        \A i \in DOMAIN last.calls :
            last.calls[i].op \in TextConsumers =>
                last.calls[i].text = Sanitize(last.user_message)

\* the order of the steps of a turn as the specification gives it
StatedOrder ==
    <<"lookup", "transcribe", "sanitize", "budget", "kid_sentiment", "generate",
      "reply_sentiment", "synthesize", "insert">>

StatedPos(op) == CHOOSE k \in DOMAIN StatedOrder : StatedOrder[k] = op

\* C7: the steps of a chat turn that reaches a response come in the stated
\* order: lookup, transcription, redaction, budget charge, emotion of the
\* user text, generation, emotion of the reply, synthesis, log append.
C7_StepsInStatedOrder ==
    last.status = 200 =>
        \A i, j \in DOMAIN last.calls :
            i < j => StatedPos(last.calls[i].op) < StatedPos(last.calls[j].op)

\* C8: sanitize(sanitize(x)) = sanitize(x) for every text x.
C8_Idempotent == sanPc = "twice" => sanTwice = sanOnce

\* every identifier of the text stands between spaces or at an end of it
Delimited(ps) ==
    \A i \in DOMAIN ps :
        ps[i] \in IdentifierPieces =>
            /\ i = 1 \/ ps[i - 1] \in {"call", "andEmail", "space"}
            /\ i = Len(ps) \/ ps[i + 1] \in {"andEmail", "space"}

\* the text with a token for each identifier and the rest as it is
RECURSIVE Redacted(_)
Redacted(ps) ==
    IF ps = <<>> THEN <<>>
    ELSE (IF Head(ps) \in IdentifierPieces THEN TOKEN_PLACEHOLDER
          ELSE PieceText[Head(ps)]) \o Redacted(Tail(ps))

\* C9: for a text with SSN-, phone-, ZIP- or email-shaped identifiers,
\* sanitize returns the text with one token in place of each identifier and
\* everything outside the identifiers unchanged.
C9_EveryIdentifierRedacted ==
    sanPc = "once" /\ Delimited(sanPieces) => sanOnce = Redacted(sanPieces)

\* C10: sanitize("Call 555-123-4567 and email a@b.com") has two tokens, one
\* for the phone number and one for the email, and the rest unchanged.
C10_DashedPhoneRedacted ==
    sanPc = "once" /\ sanPieces = <<"call", "phoneDash", "andEmail", "email">> =>
        sanOnce = PieceText.call \o TOKEN_PLACEHOLDER \o PieceText.andEmail
                      \o TOKEN_PLACEHOLDER

\* the bucket of a score in hundredths: 25 and above, -25 and below, between
ScoreBucket(score) ==
    IF score >= 25 THEN "positive" ELSE IF score <= -25 THEN "negative" ELSE "neutral"

C12_SentimentFailureIsNeutral ==
    last.route \in {"chat", "welcome"} /\ last.status \notin {400, 404} =>
        /\ last.status = 200
        /\ last.text # <<>>
        /\ last.route = "chat" /\ ~last.outcome.kid.ok => last.kid_emotion = "neutral"
        /\ ~last.outcome.reply.ok => last.emotion = "friendly"

\* a chat turn in which the sentiment of the user's text failed was answered
C12_Witness ==
    /\ last.route = "chat"
    /\ last.status = 200
    /\ ~last.outcome.kid.ok
    /\ ~last.denied
    /\ last.kid_emotion = "neutral"

\* the payload cannot be decoded, or is below 100 bytes, or above 10 MiB
OutOfRange(audio) ==
    ~audio.decodable \/ audio.size < 100 \/ audio.size > 10485760

TopConfidence(r) ==
    IF r.alternatives = <<>> THEN 0 ELSE r.alternatives[1].confidence

\* results[i] is the first of the most confident results
IsBest(results, i) ==
    \A j \in DOMAIN results :
        /\ TopConfidence(results[j]) <= TopConfidence(results[i])
        /\ j < i => TopConfidence(results[j]) < TopConfidence(results[i])

\* the recognizer answered with one or more hypotheses
HasHypotheses(answer) == ~answer.raised /\ answer.results # <<>>

\* the transcript has a character that is no white space
Spoken(transcript) == \E k \in DOMAIN transcript : transcript[k] \notin Whitespace

\* the recognizer answered and its best hypothesis has a transcript that is
\* not blank
HasSpokenBest(answer) ==
    /\ HasHypotheses(answer)
    /\ \E i \in DOMAIN answer.results :
           /\ IsBest(answer.results, i)
           /\ answer.results[i].alternatives # <<>>
           /\ Spoken(answer.results[i].alternatives[1].transcript)

\* the transcripts, stripped, of the most confident hypotheses of an answer
BestTranscripts(answer) ==
    {IF answer.results[i].alternatives = <<>> THEN <<>>
     ELSE Strip(answer.results[i].alternatives[1].transcript) :
         i \in {k \in DOMAIN answer.results :
                   \A j \in DOMAIN answer.results :
                       TopConfidence(answer.results[j])
                           <= TopConfidence(answer.results[k])}}

\* e is the first encoding whose answer satisfies P
FirstWith(P(_), answers, e) == P(answers[e]) /\ \A d \in 1..(e - 1) : ~P(answers[d])

\* transcribe_audio has run on a payload that decodes
Transcribed == stt.pc = "done" /\ stt.audio.decodable

\* C14 as stated: the encodings are tried in the order WEBM_OPUS, LINEAR16,
\* FLAC, and as soon as the recognizer returns one or more hypotheses for an
\* encoding, the transcript of its most confident hypothesis is returned and
\* no later encoding is tried.
C14_FirstHypothesesWin ==
    Transcribed =>
        \A e \in DOMAIN ENCODINGS :
            FirstWith(HasHypotheses, stt.audio.answers, e) =>
                /\ stt.out.calls = SubSeq(ENCODINGS, 1, e)
                /\ stt.out.text \in BestTranscripts(stt.audio.answers[e])

\* C14, for the hypotheses the code takes: the encodings are tried in the
\* order WEBM_OPUS, LINEAR16, FLAC, and as soon as the recognizer returns
\* hypotheses the most confident of which has a transcript that is not blank,
\* that transcript, stripped, is returned and no later encoding is tried; an
\* encoding whose best hypothesis is blank or has no alternative is passed
\* over.
C14_FirstSpokenBestWins ==
    Transcribed =>
        /\ \E n \in 0..Len(ENCODINGS) : stt.out.calls = SubSeq(ENCODINGS, 1, n)
        /\ \A e \in DOMAIN ENCODINGS :
               FirstWith(HasSpokenBest, stt.audio.answers, e) =>
                   /\ stt.out.calls = SubSeq(ENCODINGS, 1, e)
                   /\ stt.out.text # <<>>
                   /\ stt.out.text \in BestTranscripts(stt.audio.answers[e])
                   /\ \E i \in DOMAIN stt.audio.answers[e].results :
                          /\ IsBest(stt.audio.answers[e].results, i)
                          /\ stt.out.text =
                                 Strip(stt.audio.answers[e].results[i]
                                           .alternatives[1].transcript)

\* the first encoding gave only a blank hypothesis and the second one gave
\* the transcript
C14_Witness ==
    /\ Transcribed
    /\ HasHypotheses(stt.audio.answers[1])
    /\ ~HasSpokenBest(stt.audio.answers[1])
    /\ HasSpokenBest(stt.audio.answers[2])
    /\ stt.out.calls = <<"WEBM_OPUS", "LINEAR16">>
    /\ stt.out.text = <<"h", "i">>

\* the recognizer raised or returned no hypothesis
Fruitless(answer) == answer.raised \/ answer.results = <<>>

\* C15: if for every encoding the recognizer returns no hypothesis or
\* raises, transcribe_audio returns None, having tried every encoding; an
\* exception on one encoding does not keep the next one from being tried.
C15_NoTranscriptionIsNone ==
    Transcribed =>
        /\ (\A e \in DOMAIN ENCODINGS : Fruitless(stt.audio.answers[e])) =>
               stt.out.text = <<>> /\ stt.out.calls = ENCODINGS
        /\ \A e \in 1..(Len(ENCODINGS) - 1) :
               Len(stt.out.calls) >= e /\ stt.audio.answers[e].raised =>
                   Len(stt.out.calls) >= e + 1

\* every encoding raised or gave nothing, and None came back
C15_Witness ==
    /\ Transcribed
    /\ stt.audio.answers[1].raised
    /\ ~stt.audio.answers[2].raised
    /\ stt.audio.answers[3].raised
    /\ \A e \in DOMAIN ENCODINGS : Fruitless(stt.audio.answers[e])
    /\ stt.out.text = <<>>
    /\ stt.out.calls = ENCODINGS

\* a chat turn that was answered
Answered == last.route = "chat" /\ last.status = 200

\* C16: the reply text of every successful chat turn has at most MAX_LINES
\* lines, whether it is the truncated generation output, a fallback line or
\* the break message.
C16_ReplyWithinLineLimit ==
    Answered => Len(SplitLines(last.text)) <= MAX_LINES

\* the generation failed in an answered turn that the budget let through
GenerationFailed == Answered /\ ~last.denied /\ ~last.outcome.gen.ok

\* name occurs in text
Contains(text, name) ==
    \E i \in 1..(Len(text) - Len(name) + 1) :
        SubSeq(text, i, i + Len(name) - 1) = name

\* C17: when the generation fails, get_reply returns one line of the
\* fallback set, and that line contains the session's buddy name.
C17_FallbackNamesBuddy ==
    GenerationFailed =>
        /\ \E k \in 1..FallbackCount :
               last.text = FallbackResponse(k, sessions[last.sid].buddy_name)
        /\ Contains(last.text, sessions[last.sid].buddy_name)

\* the records a step adds to the log
Appended == {r \in messages' : r \notin messages}

\* C18: when the synthesis fails in a chat turn, the turn still succeeds:
\* the response carries the reply text with empty audio, and exactly one
\* record, of the exchange, is appended to the log.
C18_SynthesisFailureIsolated ==
    [][nextId' # nextId /\ ~last'.outcome.tts =>
          /\ last'.route = "chat"
          /\ last'.status = 200
          /\ last'.text # <<>>
          /\ last'.audio_b64 = ""
          /\ Cardinality(Appended) = 1
          /\ \A r \in Appended :
                 /\ r.session_id = last'.sid
                 /\ r.text = ExchangeText(last'.user_message, last'.text)]_vars

\* a turn answered without audio because the synthesis failed, its exchange
\* in the log
C18_Witness ==
    /\ Answered
    /\ ~last.outcome.tts
    /\ last.audio_b64 = ""
    /\ last.text # <<>>
    /\ \E r \in messages :
           /\ r.session_id = last.sid
           /\ r.text = ExchangeText(last.user_message, last.text)

\* the records of a session, the one appended last first: ids are given in
\* the order of the appends
RECURSIVE LatestFirst(_)
LatestFirst(rows) ==
    IF rows = {} THEN <<>>
    ELSE LET r == CHOOSE x \in rows : \A y \in rows : y.id <= x.id
         IN  <<r>> \o LatestFirst(rows \ {r})

\* the first limit of them
NewestFirst(rows, sid, limit) ==
    LET q == LatestFirst({r \in rows : r.session_id = sid})
    IN  SubSeq(q, 1, Min(limit, Len(q)))

\* the texts of a sequence of records
RecordTexts(q) == [i \in DOMAIN q |-> q[i].text]

\* C19: for an existing session, export_logs with another PIN than the
\* configured one fails with 401, which is not the 404 of an unknown session,
\* and returns no record; with the configured PIN it returns the records of
\* that session and no other, the newest first, at most GET_LOGS_LIMIT.
C19_ExportNeedsPinNewestFirst ==
    [][exported' # exported /\ exported'.sid \in DOMAIN sessions =>
          IF exported'.pin # PARENT_PIN
          THEN exported'.status = 401 /\ exported'.logs = <<>>
          ELSE (\E r \in messages : r.session_id = exported'.sid) =>
                   /\ exported'.status = 200
                   /\ Len(exported'.logs) <= GET_LOGS_LIMIT
                   /\ exported'.logs =
                          RecordTexts(NewestFirst(messages, exported'.sid,
                                                  GET_LOGS_LIMIT))]_vars

\* C20: fetch_last returns at most limit records of the session asked for,
\* and a record appended later comes before one appended earlier, also when
\* both were appended in the same second.
C20_ReadNewestFirst ==
    [][\A sid \in SessionIds, limit \in ReadLimits :
           LogFetch(sid, limit) =>
               /\ Len(readRows') <= limit
               /\ readRows' = Columns(NewestFirst(messages, sid, limit))]_vars

\* C21: right after any append, of any session, the log holds no record, of
\* any session, whose creation time is before the current time minus the
\* retention window: the purge is part of the append.
C21_AppendPurgesAll ==
    [][nextId' # nextId =>
          /\ \E r \in messages' : r.id = nextId /\ r.created_at = now'
          /\ \A r \in messages' : r.created_at >= now' - RETENTION_SECS]_vars

\* the second append, by session 2, is all the log holds: it swept away the
\* first record, which a read had returned when it was over the age
C21_Witness ==
    /\ nextId = 3
    /\ now > RETENTION_SECS
    /\ \E r \in messages : r.id = 2 /\ r.session_id = 2 /\ r.created_at = now
    /\ Cardinality(messages) = 1
    /\ readRows # <<>>
    /\ readRows[1][1] < now - RETENTION_SECS

\* the last chat request named no session that exists, brought audio that
\* does not decode or is out of the size range, or brought neither text nor
\* audio
UnknownSession == last.sid \notin DOMAIN sessions

BadAudio == last.audio.present /\ OutOfRange(last.audio)

NoInput ==
    /\ ~last.audio.present
    /\ \A i \in DOMAIN last.message : last.message[i] \in Whitespace

\* C22: a chat request with an unknown session, with invalid, undersized or
\* oversized audio, or with neither text nor audio is answered with a 4xx and
\* never with the 500; only failures outside these cases get the one generic
\* message.
C22_ClientErrorsStayClientErrors ==
    last.route = "chat" =>
        /\ UnknownSession \/ BadAudio \/ NoInput =>
               /\ last.status \in 400..499
               /\ last.detail # GENERIC_FAILURE
        /\ last.status >= 500 =>
               /\ last.status = 500
               /\ last.detail = GENERIC_FAILURE
               /\ ~(UnknownSession \/ BadAudio \/ NoInput)

\* after a request had been answered with the 500, one with undersized
\* audio is answered with the 400 of the audio check
C22_Witness ==
    /\ failures = 1
    /\ last.route = "chat"
    /\ BadAudio
    /\ last.audio.decodable
    /\ last.status = 400
    /\ last.detail = "Invalid audio data"

\* C23: if a collaborator call of one request never returns, every other
\* request that was submitted still runs to completion: each request that is
\* submitted completes, unless it is its own collaborator call that hangs.
C23_HangBlocksOnlyIssuer ==
    \A t \in Tasks : (task[t].pc = "ready") ~> (task[t].pc \in {"idle", "hung"})

\* C24: a charge made when 86400 s or more have passed since the window
\* started first clears the counters of all sessions and restarts the window
\* at the current time, and then counts its own words; a charge made earlier
\* leaves the window start and the counters of the other sessions as they
\* are.
C24_WindowExpiresAtADay ==
    [][\A s \in SessionIds, x \in ChargeTexts :
           Charge(s, x) =>
               IF now - reset_ts >= SECS_PER_DAY
               THEN /\ reset_ts' = now
                    /\ \A b \in SessionIds \ {s} : BucketGet(bucket', b) = 0
                    /\ BucketGet(bucket', s) =
                           IF WordCount(x) > MAX_TOKENS THEN 0 ELSE WordCount(x)
               ELSE /\ reset_ts' = reset_ts
                    /\ \A b \in SessionIds \ {s} :
                           BucketGet(bucket', b) = BucketGet(bucket, b)]_vars

\* C25: a session record is made once, by setup, and no later setup, chat,
\* welcome or export_logs call changes or removes it: the profile of every
\* session stays what setup was given, and a setup call makes one session
\* under an id no session had.
C25_SessionsImmutable ==
    [][/\ \A sid \in DOMAIN sessions :
              sid \in DOMAIN sessions' /\ sessions'[sid] = sessions[sid]
       /\ sessions' # sessions =>
              /\ Cardinality(DOMAIN sessions' \ DOMAIN sessions) = 1
              /\ last' = last /\ exported' = exported /\ messages' = messages]_vars

\* two sessions of different profiles, after a chat turn and an export of the
\* first and a welcome of the second were answered
C25_Witness ==
    /\ DOMAIN sessions = {1, 2}
    /\ sessions[1] # sessions[2]
    /\ last.route = "welcome" /\ last.status = 200 /\ last.sid = 2
    /\ exported.status = 200 /\ exported.sid = 1
    /\ \E r \in messages : r.session_id = 1

\* C26: after a charge of a session is denied, the later charges of that
\* session in the same window are admitted again until they total the
\* maximum: the charge that follows a denial starts from 0, and the words
\* admitted to one session in one window are not bounded by the maximum.
C26_DenialRefillsQuota ==
    [][\A s \in SessionIds, x \in ChargeTexts :
           /\ Charge(s, x)
           /\ charged.sid = s /\ ~charged.ok
           /\ now - reset_ts <= SECS_PER_DAY
           =>  IF WordCount(x) <= MAX_TOKENS
               THEN /\ charged'.ok
                    /\ BucketGet(bucket', s) = WordCount(x)
                    /\ charged'.admitted[s] =
                           Min(charged.admitted[s] + WordCount(x), AdmittedCap)
               ELSE ~charged'.ok]_vars

\* a session that was denied has been admitted again, and more words than
\* the maximum have been admitted to it in one window
C26_Witness ==
    \E s \in SessionIds :
        /\ charged.sid = s
        /\ charged.ok
        /\ charged.admitted[s] > MAX_TOKENS
        /\ charged.since[s] < charged.admitted[s]
        /\ now - reset_ts <= SECS_PER_DAY

\* C27: in every state the usage counter c of each session satisfies
\* 0 <= c <= MAX_TOKENS, and c is the sum of the words of the charges of the
\* session admitted since the later of the last window reset and the last
\* denial of the session.
C27_CounterIsAdmittedSinceDenial ==
    \A s \in SessionIds :
        /\ BucketGet(bucket, s) >= 0
        /\ BucketGet(bucket, s) <= MAX_TOKENS
        /\ BucketGet(bucket, s) = charged.since[s]

\* a session that was denied after the window restarted has words counted
\* again, fewer than were admitted to it in the window
C27_Witness ==
    \E s \in SessionIds :
        /\ reset_ts > 0
        /\ BucketGet(bucket, s) > 0
        /\ BucketGet(bucket, s) < charged.admitted[s]
        /\ \E b \in SessionIds \ {s} : BucketGet(bucket, b) > 0

\* the operations a turn has called
CalledOps(turn) == {turn.calls[i].op : i \in DOMAIN turn.calls}

\* C28: a chat turn whose charge is denied never calls the generation
\* collaborator and still completes as a turn: the break message is
\* classified, synthesized and appended to the log as the answer of the
\* exchange.
C28_DeniedTurnCompletes ==
    [][nextId' # nextId /\ last'.denied =>
          /\ "generate" \notin CalledOps(last')
          /\ "sanitize" \notin CalledOps(last')
          /\ {"budget", "reply_sentiment", "synthesize", "insert"}
                 \subseteq CalledOps(last')
          /\ last'.route = "chat"
          /\ last'.status = 200
          /\ last'.text = BREAK_MESSAGE
          /\ last'.emotion \in {"excited", "caring", "friendly"}
          /\ last'.outcome.tts => last'.audio_b64 # ""
          /\ \E r \in messages' :
                 /\ r \notin messages
                 /\ r.id = nextId
                 /\ r.session_id = last'.sid
                 /\ r.text = <<"Q: ">> \o last'.user_message
                                 \o <<"\n", "A: ">> \o BREAK_MESSAGE]_vars

\* a denied turn was answered with the break message, with audio, and the
\* exchange is in the log
C28_Witness ==
    /\ Answered
    /\ last.denied
    /\ last.text = BREAK_MESSAGE
    /\ last.audio_b64 # ""
    /\ "generate" \notin CalledOps(last)
    /\ \E r \in messages :
           r.session_id = last.sid /\ r.text[Len(r.text)] = BREAK_MESSAGE[1]

\* the budget and the log are left as they are
BudgetAndLogKept ==
    /\ bucket' = bucket
    /\ reset_ts' = reset_ts
    /\ messages' = messages
    /\ nextId' = nextId

\* C29: a chat request rejected with a client error, every welcome request
\* and every export_logs request leave the usage counters, the window start
\* and the log unchanged: only a chat turn that reaches the reply composition
\* charges the budget, and only a chat turn that returns a reply appends a
\* record, exactly one.
C29_OnlyChatTurnsChargeAndAppend ==
    [][/\ last' # last /\ last'.route = "chat" /\ last'.status \in 400..499 =>
              BudgetAndLogKept
       /\ last' # last /\ last'.route = "welcome" => BudgetAndLogKept
       /\ exported' # exported => BudgetAndLogKept
       /\ bucket' # bucket \/ reset_ts' # reset_ts =>
              /\ last'.route = "chat"
              /\ last'.status \notin 400..499
              /\ \E i \in DOMAIN last'.calls : last'.calls[i].op = "budget"
       /\ messages' # messages \/ nextId' # nextId =>
              /\ last'.route = "chat"
              /\ last'.status = 200
              /\ last'.text # <<>>
              /\ nextId' = nextId + 1
              /\ Cardinality({r \in messages' : r \notin messages}) = 1]_vars

\* a welcome request was answered for a session that has words counted and a
\* record in the log, after an export was refused
C29_Witness ==
    /\ last.route = "welcome"
    /\ last.status = 200
    /\ BucketGet(bucket, last.sid) > 0
    /\ \E r \in messages : r.session_id = last.sid
    /\ exported.status = 401
    /\ failures = 1

\* C30: export_logs with the configured PIN for a session that exists and
\* has no record in the log is answered with the 404 of "No logs found for
\* this session", not with the 500.
C30_NoLogsIsNotFound ==
    [][/\ exported' # exported
       /\ exported'.sid \in DOMAIN sessions
       /\ exported'.pin = PARENT_PIN
       /\ ~\E r \in messages : r.session_id = exported'.sid
       =>  exported'.status = 404]_vars

=============================================================================
